---- MODULE Spec2Model ----
(***************************************************************************)
(* Model of beru's persistence middleware (persist) wrapped around the     *)
(* observable store (createBaseStore), with a key-value storage adapter    *)
(* that is synchronous or asynchronous and may fail on any call.           *)
(*                                                                         *)
(* JavaScript runs one task at a time: every action below is one task      *)
(* (a public call, a timer callback, the continuation of an awaited        *)
(* adapter promise) executed to completion.  Time is discrete; Tick        *)
(* advances it by one unit and a timer callback runs when its delay has    *)
(* elapsed, before time advances further.                                  *)
(***************************************************************************)
EXTENDS Integers, Sequences, FiniteSets, TLC

\* ------------------------------------------------------------------ bounds
DebounceTime == 2
MaxTimers == 2
MaxPromises == 2
MaxSets == 2      \* store.set calls counted for one subscription
MaxCount == 3     \* the largest count an updater produces
MaxEngines == 3   \* engines handed to setupHydrator
MaxJoins == 1     \* invocations of the hydrator

\* ------------------------------------------------------------------ values
\* A JavaScript value: an object over the keys count/flag (-1: key absent),
\* a number, null or undefined.
NoFields == [count |-> -1, flag |-> -1]
Obj(c, f) == [t |-> "obj", n |-> 0, o |-> [count |-> c, flag |-> f]]
Num(k) == [t |-> "num", n |-> k, o |-> NoFields]
Null == [t |-> "null", n |-> 0, o |-> NoFields]
Undefined == [t |-> "undefined", n |-> 0, o |-> NoFields]

\* an updater function handed to store.set:
\*   Fn(1) is (prev) => ({ count: prev.count + 1 })
\*   Fn(2) is (prev) => ({ count: prev.count * 2 })
Fn(k) == [t |-> "function", n |-> k, o |-> NoFields]
Updaters == {Fn(1), Fn(2)}

\* f(prev), for prev an object with a count
Call(f, prev) ==
  Obj(IF f.n = 1 THEN prev.o.count + 1 ELSE prev.o.count * 2, -1)

\* typeof v
TypeOf(v) == IF v.t \in {"obj", "null"} THEN "object"
             ELSE IF v.t = "num" THEN "number"
             ELSE IF v.t = "function" THEN "function" ELSE "undefined"

\* (a variant that only tests for null and undefined)
NotNullish(v) == v.t \in {"obj", "num"}

\* ToBoolean(v), as used by `if (migratedState)`
Truthy(v) == v.t = "obj" \/ (v.t = "num" /\ v.n # 0)

\* Object.assign({}, a, b): own keys of a, overridden by own keys of b
\* (null and primitives contribute no keys)
ObjectAssign(a, b) ==
  LET fa == IF a.t = "obj" THEN a.o ELSE NoFields
      fb == IF b.t = "obj" THEN b.o ELSE NoFields
  IN  Obj(IF fb.count # -1 THEN fb.count ELSE fa.count,
          IF fb.flag # -1 THEN fb.flag ELSE fa.flag)

\* ------------------------------------------------------------------- texts
\* A storage entry: absent (null), the empty string, text that is not JSON,
\* or JSON text of an object, kept as its sequence of key/value members.
NullText == [k |-> "null", kv |-> <<>>]
EmptyText == [k |-> "empty", kv |-> <<>>]
CorruptText == [k |-> "corrupt", kv |-> <<>>]
JsonText(members) == [k |-> "json", kv |-> members]

\* `if (storedData)` on string | null
TextTruthy(text) == text.k \in {"corrupt", "json"}

\* JSON.stringify({state, version}): members in insertion order, a member
\* whose value is undefined is omitted.
JSONstringify(env) ==
  JsonText((IF env.state.t = "undefined" THEN <<>>
            ELSE <<[key |-> "state", val |-> env.state]>>)
           \o
           (IF env.version.t = "undefined" THEN <<>>
            ELSE <<[key |-> "version", val |-> env.version]>>))

\* JSON.parse throws a SyntaxError on text that is not JSON
JSONparseThrows(text) == text.k # "json"

\* property read on the parsed object: undefined when the key is missing
Member(kv, key) ==
  IF \E i \in 1..Len(kv) : kv[i].key = key
  THEN kv[CHOOSE i \in 1..Len(kv) : kv[i].key = key].val
  ELSE Undefined

\* const {state, version} = JSON.parse(text)
JSONparse(text) == [state |-> Member(text.kv, "state"),
                    version |-> Member(text.kv, "version")]

\* ----------------------------------------------------------- configuration
\* PersistConfig: the adapter kind, skipHydrate, version and the pluggable
\* migrate / merge / partial functions, each drawn from a few behaviours.
InitialState == Obj(0, 0)
SetInputs == {Obj(1, 1), Num(1)}

VersionedText == JSONstringify([state |-> Obj(2, -1), version |-> Num(0)])
UnversionedText ==
  JSONstringify([state |-> Obj(2, -1), version |-> Undefined])
ZeroText == JSONstringify([state |-> Num(0), version |-> Num(0)])
OtherVersionText ==
  JSONstringify([state |-> Obj(2, -1), version |-> Num(1)])
StoredTexts ==
  {NullText, EmptyText, CorruptText, VersionedText, UnversionedText, ZeroText,
   OtherVersionText}

\* the listeners the application subscribes to the store (pool)
AppListeners == {"app", "bad"}

Config(a, s, mi, me, pa) ==
  [async |-> a, skipHydrate |-> s, version |-> Num(0),
   migrate |-> mi, merge |-> me, partial |-> pa,
   serialize |-> "default", binding |-> "ok", pool |-> AppListeners]

\* merge is only reached when migrate returns, so a throwing merge is paired
\* with the migrate functions that return a state
Pipelines ==
  { <<"default", "default">>, <<"addFlag", "default">>,
    <<"null", "default">>, <<"throws", "default">>,
    <<"default", "throws">> }

\* every synchronous configuration with every stored text, and a choice of
\* asynchronous ones
Setups ==
  { [cfg |-> Config(FALSE, s, pl[1], pl[2], pa), text |-> tx] :
      s \in BOOLEAN, pl \in Pipelines, pa \in {"identity", "pick"},
      tx \in StoredTexts }
  \cup
  { [cfg |-> Config(TRUE, FALSE, "default", "default", "identity"),
     text |-> VersionedText],
    [cfg |-> Config(TRUE, TRUE, "addFlag", "default", "pick"),
     text |-> UnversionedText],
    [cfg |-> Config(TRUE, FALSE, "throws", "default", "identity"),
     text |-> CorruptText] }

\* Configurations whose write path or storage binding fails: partial or
\* serialize throws, or `storage` is a factory that throws on some of its
\* calls ("flaky"); the configured version is 0 or 1.
FaultConfig(a, s, pa, se, bi, ve) ==
  [Config(a, s, "default", "default", pa) EXCEPT
     !.serialize = se, !.binding = bi, !.version = ve]

WritePaths ==
  { <<"identity", "default">>, <<"pick", "default">>,
    <<"throws", "default">>, <<"identity", "throws">> }

FaultSetups ==
  { [cfg |-> FaultConfig(FALSE, s, wp[1], wp[2], bi, ve), text |-> tx] :
      s \in BOOLEAN, wp \in WritePaths, bi \in {"ok", "flaky"},
      ve \in {Num(0), Num(1)}, tx \in {NullText, VersionedText} }
  \cup
  { [cfg |-> FaultConfig(TRUE, FALSE, "identity", "default", "flaky",
                         Num(0)),
     text |-> VersionedText] }

VARIABLES
  cfg,               \* the PersistConfig
  constructed,       \* persist(store, config) has run
  state,             \* createBaseStore: let state
  listeners,         \* createBaseStore: const listeners = new Set()
  order,             \* the insertion order of that Set (forEach follows it)
  tally,             \* calls of the application's listener (observation)
  persistenceTimer,  \* persist: timer handle, 0 is null
  storeUnsubscribe,  \* persist: TRUE when an unsubscribe closure is held
  pendingHydration,  \* persist: memoized promise id, 0 is null
  timers,            \* the runtime's scheduled timeouts
  promises,          \* status of every hydration promise created so far
  reads,             \* getItem promises not yet settled
  storage,           \* the entry held by the adapter `storage` yields now
  other,             \* the entry held by the adapter it yielded before
  hydrator,          \* the engines handed to setupHydrator and its joins
  lastOp,            \* what the last task did (observation)
  burst              \* the current burst of mutations (observation)

vars == << cfg, constructed, state, listeners, order, tally,
           persistenceTimer, storeUnsubscribe, pendingHydration, timers,
           promises, reads, storage, other, hydrator, lastOp, burst >>


\* ---------------------------------------------------------------- machine
\* The mutable program state gathered in one record, so that the functions
\* of persist() can be written as operators from machine to machine.  log
\* collects what the running task did; ret/outcome are its return value.
\*   gets      getItem calls          wrote     texts handed to setItem
\*   errs      kinds given to onError failed    an adapter call failed
\*   piped     hydrateFromStoredData ran
\*   mig       arguments of each migrate call, migrated its results
\*   merged    arguments of each merge call
\*   applied   the pipeline called store.set
\*   notified  listeners called by store.set
\*   removes   removeItem calls       fallback  createFallbackStorage calls
\*   thrown    a listener threw while store.set notified it
\*   resolved  calls of the `storage` factory
\*   used      the adapters the storage accesses went to
EmptyLog == [gets |-> 0, wrote |-> <<>>, errs |-> <<>>, failed |-> FALSE,
             piped |-> FALSE, mig |-> <<>>, migrated |-> <<>>,
             merged |-> <<>>, applied |-> FALSE, notified |-> {},
             removes |-> 0, fallback |-> 0, thrown |-> FALSE,
             resolved |-> 0, used |-> <<>>, calls |-> <<>>,
             assigned |-> <<>>]

Machine ==
  [ state |-> state, listeners |-> listeners, order |-> order,
    tally |-> tally,
    persistenceTimer |-> persistenceTimer,
    storeUnsubscribe |-> storeUnsubscribe,
    pendingHydration |-> pendingHydration,
    timers |-> timers, promises |-> promises, reads |-> reads,
    storage |-> storage, other |-> other, adapter |-> "storage",
    log |-> EmptyLog, ret |-> 0, outcome |-> "void" ]

\* onError(type, error): the error channel, observed through the log
onError(m, kind) == [m EXCEPT !.log.errs = Append(@, kind)]

\* ------------------------------------------------------------------ timers
TimerIds(ts) == {t.id : t \in ts}

\* setTimeout returns a handle that no live timer carries
FreshTimerId(ts) ==
  CHOOSE i \in 1..(Cardinality(ts) + 1) :
    /\ i \notin TimerIds(ts)
    /\ \A j \in 1..(i - 1) : j \in TimerIds(ts)

\* clearTimeout(handle): a handle whose timer is gone is ignored
clearTimeout(ts, h) == {t \in ts : t.id # h}

\* (a variant that forgets to cancel the pending timer)
scheduleWithoutCancel(m, data) ==
  [m EXCEPT !.timers = @ \cup {[id |-> FreshTimerId(@), data |-> data,
                                remaining |-> DebounceTime]},
            !.persistenceTimer = FreshTimerId(m.timers)]

\* (a variant that does not keep the handle of the timer it sets)
scheduleWithoutHandle(m, data) ==
  LET ts == IF m.persistenceTimer # 0
            THEN clearTimeout(m.timers, m.persistenceTimer)
            ELSE m.timers
  IN  [m EXCEPT !.timers = ts \cup {[id |-> FreshTimerId(ts), data |-> data,
                                     remaining |-> DebounceTime]}]

\* (a variant that leaves a pending write as it is: the first call of a
\* burst sets the timer, the following ones are dropped)
scheduleKeepingPending(m, data) ==
  IF \E t \in m.timers : t.id = m.persistenceTimer THEN m
  ELSE LET id == FreshTimerId(m.timers)
       IN  [m EXCEPT !.timers = @ \cup {[id |-> id, data |-> data,
                                        remaining |-> DebounceTime]},
                     !.persistenceTimer = id]

\* scheduleStatePersistence(data)
scheduleStatePersistence(m, data) ==
  LET ts == IF m.persistenceTimer # 0
            THEN clearTimeout(m.timers, m.persistenceTimer)
            ELSE m.timers
      id == FreshTimerId(ts)
  IN  [m EXCEPT !.timers = ts \cup {[id |-> id, data |-> data,
                                     remaining |-> DebounceTime]},
                !.persistenceTimer = id]

\* ------------------------------------------------------------------- store
\* createBaseStore.get
storeGet(m) == m.state

\* The listeners of a store: "persist" is the engine's
\* scheduleStatePersistence, "app" a listener of the application that
\* returns normally, "bad" the listener (s) => s.flag.toString(), which
\* throws a TypeError when the value has no flag.  "seen" is a listener that
\* only records its argument, "norm" the listener
\* (s) => { if (typeof s === "number") store.set({count: s, flag: 0}) },
\* "adder" a listener that subscribes "seen" unless it is subscribed, and
\* "remover" a listener that calls the unsubscribe function of "app".

\* the calls "app" has seen since it was subscribed, the store.set calls
\* made since, those of them that did not reach it, and the value it was
\* last called with
NoTally == [calls |-> 0, sets |-> 0, missed |-> 0, last |-> Undefined]
HasFlag(v) == v.t = "obj" /\ v.o.flag # -1

\* The Set of listeners is a list of entries in insertion order: delete
\* empties the entry of the listener, add appends one, and forEach walks the
\* list as it is when each entry is reached.  Between tasks the list is
\* kept without its emptied entries.
Empty == "empty"
Without(seq, l) == SelectSeq(seq, LAMBDA x : x # l)

\* the argument of listener(state): the store's variable at the call
listenerArgument(m) == m.state

RECURSIVE callListener(_, _)
RECURSIVE forEachListener(_, _)
RECURSIVE storeSet(_, _)
RECURSIVE subscribe(_, _)

\* the function subscribe returns: () => listeners.delete(listener)
unsubscribe(m, l) ==
  [m EXCEPT !.listeners = @ \ {l},
            !.order = [i \in DOMAIN m.order |->
                         IF m.order[i] = l THEN Empty ELSE m.order[i]],
            !.tally = IF l = "app" THEN NoTally ELSE @]

\* listener(state)
callListener(m, l) ==
  LET v == listenerArgument(m)
      m0 == [m EXCEPT !.log.calls = Append(@, [l |-> l, v |-> v])]
  IN  CASE l = "persist" -> scheduleStatePersistence(m0, v)
        [] l = "app" -> [m0 EXCEPT !.tally.calls = @ + 1,
                                   !.tally.last = v]
        [] l = "seen" -> m0
        [] l = "norm" -> IF v.t = "num"
                         THEN storeSet(m0, Obj(v.n, 0))
                         ELSE m0
        [] l = "adder" -> IF "seen" \in m0.listeners THEN m0
                          ELSE subscribe(m0, "seen")
        [] l = "remover" -> unsubscribe(m0, "app")
        [] OTHER -> IF HasFlag(v) THEN m0
                    ELSE [m0 EXCEPT !.log.thrown = TRUE,
                                    !.outcome = "threw"]

\* (a variant that passes over a listener already notified in the task, so
\* that a set() made during a notification does not notify it again)
RECURSIVE forEachListenerOnce(_, _)
forEachListenerOnce(m, i) ==
  IF i > Len(m.order) THEN m
  ELSE IF m.order[i] = Empty \/ m.order[i] \in m.log.notified
  THEN forEachListenerOnce(m, i + 1)
  ELSE LET m1 == callListener(
                   [m EXCEPT !.log.notified = @ \cup {m.order[i]}],
                   m.order[i])
       IN  IF m1.log.thrown THEN m1 ELSE forEachListenerOnce(m1, i + 1)

\* listeners.forEach((listener) => listener(state)): the Set is walked in
\* insertion order, entries emptied before they are reached are passed
\* over, entries appended during the walk are reached, and an exception
\* ends the walk
forEachListener(m, i) ==
  IF i > Len(m.order) THEN m
  ELSE IF m.order[i] = Empty THEN forEachListener(m, i + 1)
  ELSE LET m1 == callListener(
                   [m EXCEPT !.log.notified = @ \cup {m.order[i]}],
                   m.order[i])
       IN  IF m1.log.thrown THEN m1 ELSE forEachListener(m1, i + 1)

\* (a variant that adds the listener without calling it)
subscribeWithoutCall(m, l) ==
  [m EXCEPT !.listeners = @ \cup {l},
            !.order = IF l \in m.listeners THEN @ ELSE Append(@, l),
            !.tally = IF l = "app" THEN NoTally ELSE @]

\* (a variant that merges an object into the previous state)
storeSetMerging(m, action) ==
  LET next == IF TypeOf(action) = "function" THEN Call(action, m.state)
              ELSE IF TypeOf(action) = "object" /\ TypeOf(m.state) = "object"
              THEN ObjectAssign(m.state, action)
              ELSE action
  IN  forEachListener([m EXCEPT !.state = next], 1)

\* createBaseStore.set(action): replace the state by action(state) or by
\* action, then notify the listeners.  (tally counts the calls the
\* application's listener saw and missed.)
storeSet(m, action) ==
  LET next == IF TypeOf(action) = "function" THEN Call(action, m.state)
              ELSE action
      m1 == forEachListener([m EXCEPT !.state = next,
                                      !.log.assigned = Append(@, next)], 1)
  IN  IF "app" \in m.listeners
      THEN [m1 EXCEPT !.tally.sets = @ + 1,
                      !.tally.missed =
                        IF "app" \in m1.log.notified THEN @ ELSE @ + 1]
      ELSE m1

\* createBaseStore.subscribe(listener): add the listener to the Set and
\* call it at once with the current state
subscribe(m, l) ==
  LET m0 == [m EXCEPT !.listeners = @ \cup {l},
                      !.order = IF l \in m.listeners THEN @
                                ELSE Append(@, l)]
      m1 == IF l = "app"
            THEN [m0 EXCEPT !.tally = NoTally]
            ELSE m0
  IN  callListener(m1, l)

\* (a variant that adds the engine's listener without calling it)
storeSubscribeWithoutCall(m) ==
  [m EXCEPT !.listeners = @ \cup {"persist"},
            !.order = IF "persist" \in m.listeners THEN @
                      ELSE Append(@, "persist")]

\* store.subscribe(scheduleStatePersistence)
storeSubscribe(m) == subscribe(m, "persist")

\* -------------------------------------------------------------- persist()
\* (a variant that calls storeUnsubscribe() without the optional chaining)
disposeThrowsOnNull(m) == ~m.storeUnsubscribe

\* storeUnsubscribe?.() : the optional call does nothing on null
disposeThrows(m) == FALSE

\* (a variant that leaves the pending timer running)
disposeWithoutClear(m) ==
  [(IF m.storeUnsubscribe THEN unsubscribe(m, "persist") ELSE m)
     EXCEPT !.storeUnsubscribe = FALSE]

\* (a variant that drops the unsubscribe closure without calling it)
disposeWithoutUnsubscribe(m) ==
  [m EXCEPT !.storeUnsubscribe = FALSE,
            !.timers = IF m.persistenceTimer # 0
                       THEN clearTimeout(@, m.persistenceTimer)
                       ELSE @]

\* (a variant that also drops the hydration reads in flight)
disposeCancellingReads(m) ==
  LET m1 == IF m.storeUnsubscribe
            THEN unsubscribe(m, "persist")
            ELSE m
  IN  [m1 EXCEPT !.storeUnsubscribe = FALSE, !.reads = {},
                 !.timers = IF m.persistenceTimer # 0
                            THEN clearTimeout(@, m.persistenceTimer)
                            ELSE @]

\* dispose()
dispose(m) ==
  IF disposeThrows(m) THEN [m EXCEPT !.outcome = "threw"]
  ELSE
  LET m1 == IF m.storeUnsubscribe
            THEN unsubscribe(m, "persist")
            ELSE m
  IN  [m1 EXCEPT !.storeUnsubscribe = FALSE,
                 !.timers = IF m.persistenceTimer # 0
                            THEN clearTimeout(@, m.persistenceTimer)
                            ELSE @]

\* (a variant that leaves a disposed engine, one without closure whose
\* timer handle was never emptied, unsubscribed)
initializeSubscriptionUnlessDisposed(m) ==
  IF ~m.storeUnsubscribe /\ m.persistenceTimer # 0 THEN m
  ELSE [subscribe(dispose(m), "persist") EXCEPT !.storeUnsubscribe = TRUE]

\* (a variant that does not subscribe after a pipeline that threw)
initializeSubscriptionUnlessFailed(m) ==
  IF m.log.errs # <<>> THEN m
  ELSE [subscribe(dispose(m), "persist") EXCEPT !.storeUnsubscribe = TRUE]

\* initializeSubscription()
initializeSubscription(m) ==
  [storeSubscribe(dispose(m)) EXCEPT !.storeUnsubscribe = TRUE]

\* (a variant that persists the whole value)
partialWhole(v) == v

\* config.partial: the default, or (state) => ({count: state.count}); a
\* partial that throws returns nothing
partialThrows == cfg.partial = "throws"
partial(v) ==
  IF cfg.partial = "identity" THEN v
  ELSE IF cfg.partial = "pick"
  THEN Obj(IF v.t = "obj" THEN v.o.count ELSE -1, -1)
  ELSE Undefined

\* config.serialize / config.deserialize (the defaults)
serializeThrows == cfg.serialize = "throws"
serialize(env) == JSONstringify(env)
deserializeThrows(text) == JSONparseThrows(text)

\* `typeof storage === "function"`: the flaky binding is a factory that
\* throws on some of its calls
StorageIsFunction == cfg.binding \in {"flaky", "factory"}

\* (a variant that falls back without reporting)
getStorageInstanceSilent(m, out) ==
  IF out = "unbound"
  THEN [m EXCEPT !.log.fallback = @ + 1, !.adapter = "fallback"]
  ELSE m

\* (a variant that calls the factory once and keeps what it returned, so
\* that after a swap it still holds the adapter yielded before)
getStorageInstanceCached(m, out) ==
  [m EXCEPT !.adapter = IF cfg.binding = "factory" THEN "other"
                        ELSE "storage"]

\* getStorageInstance(); out = "unbound" when evaluating the binding throws
\* (the factory, or the missing localStorage): the error is reported and
\* createFallbackStorage() stands in, whose getItem returns null and whose
\* setItem and removeItem do nothing
getStorageInstance(m, out) ==
  LET m1 == IF StorageIsFunction THEN [m EXCEPT !.log.resolved = @ + 1]
            ELSE m
  IN  IF out = "unbound"
      THEN [onError(m1, "storage") EXCEPT !.log.fallback = @ + 1,
                                          !.adapter = "fallback"]
      ELSE [m1 EXCEPT !.adapter = "storage"]

\* (a variant of the adapter whose setItem loses the text)
setItemLost(m, text) == [m EXCEPT !.log.used = Append(@, m.adapter)]

\* the adapter's methods, on the adapter getStorageInstance() returned:
\* the one `storage` yields now, the one it yielded before, or the fallback
getItem(m) == IF m.adapter = "fallback" THEN NullText ELSE m[m.adapter]
setItem(m, text) ==
  LET m1 == [m EXCEPT !.log.used = Append(@, m.adapter)]
  IN  IF m.adapter = "fallback" THEN m1 ELSE [m1 EXCEPT ![m.adapter] = text]
removeItem(m) == setItem(m, NullText)

\* (a variant that defaults a missing version to 0)
deserializeVersionZero(text) ==
  [state |-> JSONparse(text).state,
   version |-> IF JSONparse(text).version = Undefined THEN Num(0)
               ELSE JSONparse(text).version]

deserialize(text) == JSONparse(text)

\* (a variant of the default that lets every stored version through)
migrateAnyVersion(st, ver) ==
  CASE cfg.migrate = "default" -> st
    [] cfg.migrate = "addFlag" ->
         Obj(IF st.t = "obj" THEN st.o.count ELSE -1, 1)
    [] OTHER -> Null

\* config.migrate
migrateThrows == cfg.migrate = "throws"
migrate(st, ver) ==
  CASE cfg.migrate = "default" -> IF ver = cfg.version THEN st ELSE Null
    [] cfg.migrate = "addFlag" ->
         Obj(IF st.t = "obj" THEN st.o.count ELSE -1, 1)
    [] OTHER -> Null

\* config.merge
mergeThrows == cfg.merge = "throws"
merge(a, b) ==
  IF TypeOf(a) = "object" /\ TypeOf(b) = "object"
  THEN ObjectAssign(a, b) ELSE b

\* originalGet = store.get
originalGet(m) == storeGet(m)

\* (a variant that schedules the failed write again)
persistStateToStorageRetrying(m, data, out) ==
  LET serialized == serialize([state |-> partial(data),
                               version |-> cfg.version])
      m0 == [m EXCEPT !.outcome = "resolved"]
      m1 == [getStorageInstance(m0, out) EXCEPT
               !.log.wrote = Append(@, serialized)]
  IN  IF partialThrows \/ serializeThrows
      THEN scheduleStatePersistence(onError(m0, "persistence"), data)
      ELSE IF out \in {"ok", "unbound"} THEN setItem(m1, serialized)
      ELSE scheduleStatePersistence(
             onError([m1 EXCEPT !.log.failed = TRUE], "persistence"), data)

\* persistStateToStorage(state); out is what the storage access does: "ok",
\* "throw" (setItem throws synchronously), "reject" (the promise it returned
\* rejects) or "unbound".  partial and serialize run first, so when one of
\* them throws the storage is not touched.  The code after the await
\* touches nothing but the error channel, so it is run in the same step:
\* the promise of this async function always resolves.
persistStateToStorage(m, data, out) ==
  LET serialized == serialize([state |-> partial(data),
                               version |-> cfg.version])
      m0 == [m EXCEPT !.outcome = "resolved"]
      m1 == [getStorageInstance(m0, out) EXCEPT
               !.log.wrote = Append(@, serialized)]
  IN  IF partialThrows \/ serializeThrows
      THEN onError(m0, "persistence")
      ELSE IF out \in {"ok", "unbound"} THEN setItem(m1, serialized)
      ELSE onError([m1 EXCEPT !.log.failed = TRUE], "persistence")

\* (a variant that reports a failed pipeline under the wrong kind)
migrationCatchAsStorage(m) == onError(m, "storage")

\* catch (error) { onError("migration", error) }
migrationCatch(m) == onError(m, "migration")

\* hydrateFromStoredData(storedData)
hydrateFromStoredData(m, storedData) ==
  LET m0 == [m EXCEPT !.log.piped = TRUE]
      env == deserialize(storedData)
      m1 == [m0 EXCEPT !.log.mig =
                         Append(@, [state |-> env.state,
                                    version |-> env.version])]
      migratedState == migrate(env.state, env.version)
      m2 == [m1 EXCEPT !.log.migrated = Append(@, migratedState)]
      base == originalGet(m2)
      m3 == [m2 EXCEPT !.log.merged =
                         Append(@, [base |-> base, with |-> migratedState])]
      processed ==
        IF ~TextTruthy(storedData) THEN m0
        ELSE IF deserializeThrows(storedData) THEN migrationCatch(m0)
        ELSE IF migrateThrows THEN migrationCatch(m1)
        ELSE IF ~Truthy(migratedState) THEN m2
        ELSE IF mergeThrows THEN migrationCatch(m3)
        ELSE LET m4 == storeSet([m3 EXCEPT !.log.applied = TRUE],
                                merge(base, migratedState))
             IN  IF m4.log.thrown
                 THEN migrationCatch([m4 EXCEPT !.outcome = m.outcome])
                 ELSE m4
  IN  initializeSubscription(processed)

\* (a variant that only returns the memoized promise while it is pending)
memoWhilePending(m) ==
  m.pendingHydration # 0 /\ m.promises[m.pendingHydration] = "pending"

\* (a variant without the memoization check)
memoNever(m) == FALSE

\* `if (pendingHydration instanceof Promise) return pendingHydration`
memoHit(m) == m.pendingHydration # 0

PromiseOutcome(m, p) == IF p = 0 THEN "void" ELSE m.promises[p]

\* hydrate(); out is what the adapter's getItem does
hydrate(m, out) ==
  IF memoHit(m)
  THEN [m EXCEPT !.ret = m.pendingHydration,
                 !.outcome = PromiseOutcome(m, m.pendingHydration)]
  ELSE
  LET m0 == getStorageInstance(m, out)
      m1 == [m0 EXCEPT !.log.gets = @ + 1,
                       !.log.used = Append(@, m0.adapter)]
      p == Len(m.promises) + 1
  IN  CASE out = "throw" ->
             onError([m1 EXCEPT !.log.failed = TRUE], "storage")
        [] out = "unbound" \/ ~cfg.async ->
             hydrateFromStoredData(m1, getItem(m1))
        [] OTHER ->
             [m1 EXCEPT !.promises = Append(@, "pending"),
                        !.reads = @ \cup {[p |-> p, text |-> getItem(m1)]},
                        !.pendingHydration = p,
                        !.ret = p, !.outcome = "pending"]

\* (a variant that keeps the memoized promise)
forceHydrateMemoized(m, out) == hydrate(m, out)

\* forceHydrate()
forceHydrate(m, out) == hydrate([m EXCEPT !.pendingHydration = 0], out)

\* (a variant that obtains the promise by calling hydrate())
waitForPersistenceHydrating(m) == hydrate(m, "ok")

\* waitForPersistence: () => pendingHydration
waitForPersistence(m) ==
  [m EXCEPT !.ret = m.pendingHydration,
            !.outcome = PromiseOutcome(m, m.pendingHydration)]

\* (a variant that writes without cancelling the pending timer)
flushWithoutCancel(m, out) == persistStateToStorage(m, storeGet(m), out)

\* flush()
flush(m, out) ==
  LET m1 == IF m.persistenceTimer # 0
            THEN [m EXCEPT !.timers = clearTimeout(@, m.persistenceTimer),
                           !.persistenceTimer = 0]
            ELSE m
  IN  persistStateToStorage(m1, storeGet(m1), out)

\* (a variant that also cancels the pending write)
clearCancelling(m, out) ==
  LET m1 == [getStorageInstance(m, out) EXCEPT
               !.log.removes = @ + 1,
               !.timers = IF m.persistenceTimer # 0
                          THEN clearTimeout(@, m.persistenceTimer)
                          ELSE @]
  IN  IF out \in {"ok", "unbound"}
      THEN [removeItem(m1) EXCEPT !.outcome = "resolved"]
      ELSE [onError([m1 EXCEPT !.log.failed = TRUE], "clear")
              EXCEPT !.outcome = "resolved"]

\* (a variant without the try/catch around removeItem)
clearUncaught(m, out) ==
  LET m1 == [getStorageInstance(m, out) EXCEPT !.log.removes = @ + 1]
  IN  IF out \in {"ok", "unbound"}
      THEN [removeItem(m1) EXCEPT !.outcome = "resolved"]
      ELSE [m1 EXCEPT !.log.failed = TRUE, !.outcome = "rejected"]

\* clear(); out is what the storage access does.  runImmediately(async
\* ...) returns a promise whatever the adapter returns; the catch keeps it
\* from rejecting.
clear(m, out) ==
  LET m1 == [getStorageInstance(m, out) EXCEPT !.log.removes = @ + 1]
  IN  IF out \in {"ok", "unbound"}
      THEN [removeItem(m1) EXCEPT !.outcome = "resolved"]
      ELSE [onError([m1 EXCEPT !.log.failed = TRUE], "clear")
              EXCEPT !.outcome = "resolved"]

\* (a variant that hydrates whatever skipHydrate says)
autoHydrateAlways == TRUE

\* `if (!skipHydrate) hydrate()` in the body of persist()
autoHydrate == ~cfg.skipHydrate

\* ------------------------------------------------------------ observation
\* Facts about the state a task started in, kept next to what it did.
Before ==
  [ state |-> state,
    pending |-> IF pendingHydration = 0 THEN "none"
                ELSE promises[pendingHydration],
    memo |-> pendingHydration,
    timer |-> timers # {},
    sub |-> "persist" \in listeners,
    text |-> NullText,
    arg |-> Undefined ]

Idle == [active |-> FALSE, n |-> 0, quiet |-> 0, writes |-> 0,
         good |-> TRUE, last |-> Undefined]

Min(a, b) == IF a < b THEN a ELSE b

\* A burst is a run of mutations seen by the change subscription, each made
\* before the write scheduled by the previous one has fired; quiet is the
\* time since its last mutation, writes the setItem calls made since it
\* began, good whether each of them came DebounceTime or more after the last
\* mutation and carried the partial of the last mutation's value.  Any other
\* engine call or hydration ends the observation.
NextBurst(name, m) ==
  CASE name = "set" ->
         IF "persist" \notin listeners THEN Idle
         ELSE IF burst.active /\ burst.writes = 0
         THEN [burst EXCEPT !.n = Min(@ + 1, 3), !.quiet = 0,
                            !.last = m.state]
         ELSE [active |-> TRUE, n |-> 1, quiet |-> 0, writes |-> 0,
               good |-> TRUE, last |-> m.state]
    [] name = "tick" ->
         IF burst.active
         THEN [burst EXCEPT !.quiet = Min(@ + 1, DebounceTime + 1)]
         ELSE burst
    [] name = "fire" ->
         IF burst.active
         THEN [burst EXCEPT
                 !.writes = Min(@ + Len(m.log.wrote), 2),
                 !.good = @ /\ burst.quiet >= DebounceTime
                            /\ \A i \in 1..Len(m.log.wrote) :
                                 deserialize(m.log.wrote[i]).state
                                   = partial(burst.last)]
         ELSE burst
    [] name = "clear" -> burst
    [] OTHER -> Idle

Commit(m, name, pre) ==
  /\ state' = m.state
  /\ listeners' = m.listeners
  /\ order' = Without(m.order, Empty)
  /\ tally' = m.tally
  /\ persistenceTimer' = m.persistenceTimer
  /\ storeUnsubscribe' = m.storeUnsubscribe
  /\ pendingHydration' = m.pendingHydration
  /\ timers' = m.timers
  /\ promises' = m.promises
  /\ reads' = m.reads
  /\ storage' = m.storage
  /\ other' = m.other
  /\ lastOp' = [name |-> name, ret |-> m.ret, outcome |-> m.outcome,
                log |-> m.log, pre |-> pre]
  /\ burst' = NextBurst(name, m)
  /\ UNCHANGED << cfg, hydrator >>

\* ----------------------------------------------------------------- actions
\* what an adapter call may do: succeed, throw, or (asynchronous adapters)
\* return a promise that rejects
Unbound == IF cfg.binding = "flaky" THEN {"unbound"} ELSE {}
Outs ==
  (IF cfg.async THEN {"ok", "throw", "reject"} ELSE {"ok", "throw"})
    \cup Unbound
\* getItem: whether the returned promise rejects shows when it settles
ReadOuts == {"ok", "throw"} \cup Unbound
\* the text a getItem call returns (or resolves to)
ReadText(out) == IF out = "unbound" THEN NullText ELSE storage

TimerSlot == Cardinality(timers) < MaxTimers
\* the store.set calls explored while the application's listener is
\* subscribed
SetSlot == "app" \in listeners => tally.sets < MaxSets
\* the hydration promises explored: one fewer in the configurations that
\* vary the pipeline or the storage binding
PromiseBound ==
  IF cfg.migrate = "default" /\ cfg.binding = "ok"
  THEN MaxPromises ELSE MaxPromises - 1
PromiseSlot == cfg.async => Len(promises) < PromiseBound

NoHydrator == [engines |-> <<>>, joins |-> <<>>, calls |-> <<>>,
               returned |-> <<>>, ret |-> "none"]

InitCommon ==
  /\ constructed = FALSE
  /\ state = InitialState
  /\ listeners = {}
  /\ order = <<>>
  /\ tally = NoTally
  /\ persistenceTimer = 0
  /\ storeUnsubscribe = FALSE
  /\ pendingHydration = 0
  /\ timers = {}
  /\ promises = <<>>
  /\ reads = {}
  /\ lastOp = [name |-> "create", ret |-> 0, outcome |-> "void",
               log |-> EmptyLog, pre |-> Before]
  /\ burst = Idle

InitWith(setups) ==
  /\ \E su \in setups : cfg = su.cfg /\ storage = su.text
  /\ other = NullText
  /\ hydrator = NoHydrator
  /\ InitCommon

Init == InitWith(Setups)
InitFaults == InitWith(FaultSetups)

\* (a variant whose constructor installs the change subscription even
\* when it does not hydrate)
ConstructSubscribing ==
  /\ ~constructed
  /\ constructed' = TRUE
  /\ \E out \in ReadOuts :
       Commit(IF autoHydrate THEN hydrate(Machine, out)
              ELSE initializeSubscription(Machine),
              "persist", [Before EXCEPT !.text = ReadText(out)])

\* persist(store, config): the body of the constructor, which hydrates at
\* once unless skipHydrate
Construct ==
  /\ ~constructed
  /\ constructed' = TRUE
  /\ \E out \in ReadOuts :
       Commit(IF autoHydrate THEN hydrate(Machine, out) ELSE Machine,
              "persist", [Before EXCEPT !.text = ReadText(out)])

\* store.set(v) called by the application
Set ==
  /\ TimerSlot /\ SetSlot
  /\ \E v \in SetInputs :
       Commit(storeSet(Machine, v), "set", [Before EXCEPT !.arg = v])
  /\ UNCHANGED constructed

Hydrate ==
  /\ constructed /\ TimerSlot
  /\ memoHit(Machine) \/ PromiseSlot
  /\ \E out \in ReadOuts :
       Commit(hydrate(Machine, out), "hydrate",
              [Before EXCEPT !.text = ReadText(out)])
  /\ UNCHANGED constructed

ForceHydrate ==
  /\ constructed /\ TimerSlot /\ PromiseSlot
  /\ \E out \in ReadOuts :
       Commit(forceHydrate(Machine, out), "forceHydrate",
              [Before EXCEPT !.text = ReadText(out)])
  /\ UNCHANGED constructed

Dispose ==
  /\ constructed
  /\ Commit(dispose(Machine), "dispose", Before)
  /\ UNCHANGED constructed

Flush ==
  /\ constructed
  /\ \E out \in Outs : Commit(flush(Machine, out), "flush", Before)
  /\ UNCHANGED constructed

Clear ==
  /\ constructed
  /\ \E out \in Outs : Commit(clear(Machine, out), "clear", Before)
  /\ UNCHANGED constructed

\* (a variant whose getter hydrates, without the guard flag)
GetHydrating ==
  /\ constructed /\ TimerSlot /\ PromiseSlot
  /\ Commit(hydrate(Machine, "ok"), "get", Before)
  /\ UNCHANGED constructed

\* store.get() called by the application: persist() leaves the store's
\* getter as it is
Get ==
  /\ constructed
  /\ Commit(Machine, "get", Before)
  /\ UNCHANGED constructed

WaitForPersistence ==
  /\ constructed
  /\ Commit(waitForPersistence(Machine), "waitForPersistence", Before)
  /\ UNCHANGED constructed

\* the promise returned by getItem settles: the continuation of
\* `hydrateFromStoredData(await storedData)` runs, or the rejection
\* propagates to the promise hydrate() returned
ReadSettles ==
  /\ TimerSlot
  /\ \E r \in reads, ok \in BOOLEAN :
       LET m == [Machine EXCEPT !.reads = @ \ {r}, !.ret = r.p]
       IN  Commit(IF ok
                  THEN [hydrateFromStoredData(m, r.text) EXCEPT
                          !.promises[r.p] = "resolved",
                          !.outcome = "resolved"]
                  ELSE [m EXCEPT !.promises[r.p] = "rejected",
                                 !.log.failed = TRUE,
                                 !.outcome = "rejected"],
                  "landed", [Before EXCEPT !.text = r.text])
  /\ UNCHANGED constructed

\* the setTimeout callback of scheduleStatePersistence
TimerFires ==
  /\ \E t \in timers :
       /\ t.remaining = 0
       /\ \E out \in Outs :
            LET m == [Machine EXCEPT !.timers = @ \ {t}]
            IN  Commit([persistStateToStorage(m, t.data, out)
                          EXCEPT !.persistenceTimer = 0],
                       "fire", Before)
  /\ UNCHANGED constructed

\* one unit of time passes; a timer that is due runs first
Tick ==
  /\ \A t \in timers : t.remaining > 0
  /\ timers # {} \/ (burst.active /\ burst.quiet <= DebounceTime)
  /\ Commit([Machine EXCEPT
               !.timers = {[t EXCEPT !.remaining = @ - 1] : t \in timers}],
            "tick", Before)
  /\ UNCHANGED constructed

\* store.set(action) with an updater function, or with an object that
\* carries only some of the state's properties
UpdateInputs == Updaters \cup {Obj(3, -1)}
UpdateDefined(a) ==
  TypeOf(a) = "function" =>
    /\ state.t = "obj" /\ state.o.count # -1
    /\ Call(a, state).o.count <= MaxCount
Update ==
  /\ TimerSlot /\ SetSlot
  /\ \E a \in UpdateInputs :
       /\ UpdateDefined(a)
       /\ Commit(storeSet(Machine, a), "set", [Before EXCEPT !.arg = a])
  /\ UNCHANGED constructed

\* store.subscribe(listener) called by the application; the faulty
\* listener is subscribed while the value has the flag it reads
Subscribe ==
  /\ TimerSlot
  /\ \E l \in cfg.pool \ listeners :
       /\ l = "bad" => HasFlag(state)
       /\ Commit(subscribe(Machine, l), "subscribe", Before)
  /\ UNCHANGED constructed

\* the application calls the function subscribe returned
Unsubscribe ==
  /\ \E l \in listeners \ {"persist"} :
       Commit(unsubscribe(Machine, l), "unsubscribe", Before)
  /\ UNCHANGED constructed

\* the application makes the `storage` factory yield another adapter
Swap ==
  /\ cfg.binding = "factory"
  /\ Commit([Machine EXCEPT !.storage = other, !.other = storage],
            "swap", Before)
  /\ UNCHANGED constructed

Next ==
  \/ Construct
  \/ Set
  \/ Hydrate
  \/ ForceHydrate
  \/ Dispose
  \/ Flush
  \/ Clear
  \/ Get
  \/ WaitForPersistence
  \/ ReadSettles
  \/ TimerFires
  \/ Tick

Spec == Init /\ [][Next]_vars

\* the same engine under the failing configurations
SpecFaults == InitFaults /\ [][Next]_vars

\* the store with listeners of the application next to the engine's, under
\* updater functions and partial objects
StoreSetups ==
  { [cfg |-> Config(FALSE, s, "default", "default", "identity"),
     text |-> tx] : s \in BOOLEAN, tx \in {NullText, VersionedText} }

InitStore == InitWith(StoreSetups)

NextStore ==
  \/ Construct
  \/ Set
  \/ Update
  \/ Subscribe
  \/ Unsubscribe
  \/ Dispose
  \/ TimerFires
  \/ Tick

SpecStore == InitStore /\ [][NextStore]_vars

\* the engine over a `storage` factory whose adapter the application swaps
FactoryConfig(a) ==
  [Config(a, FALSE, "default", "default", "identity") EXCEPT
     !.binding = "factory"]

InitFactory ==
  /\ cfg \in {FactoryConfig(a) : a \in BOOLEAN}
  /\ storage = VersionedText
  /\ other \in {NullText, UnversionedText}
  /\ hydrator = NoHydrator
  /\ InitCommon

NextFactory ==
  \/ Construct
  \/ Hydrate
  \/ ForceHydrate
  \/ Flush
  \/ Clear
  \/ ReadSettles
  \/ TimerFires
  \/ Tick
  \/ Swap

SpecFactory == InitFactory /\ [][NextFactory]_vars

\* the store alone, with listeners that subscribe and unsubscribe other
\* listeners while they are notified
NotifySetups ==
  { [cfg |-> [Config(FALSE, TRUE, "default", "default", "identity")
                EXCEPT !.pool = {"app", "adder", "remover"}],
     text |-> NullText] }

InitNotify == InitWith(NotifySetups)

NextNotify ==
  \/ Set
  \/ Subscribe
  \/ Unsubscribe

SpecNotify == InitNotify /\ [][NextNotify]_vars

\* the engine over a store one of whose listeners calls set() while it is
\* notified, next to a listener that throws and one that only records
ReentrantSetups ==
  { [cfg |-> [Config(FALSE, s, "default", "default", "identity")
                EXCEPT !.pool = {"seen", "bad", "norm"}],
     text |-> VersionedText] : s \in BOOLEAN }

InitReentrant == InitWith(ReentrantSetups)

NextReentrant ==
  \/ Construct
  \/ Set
  \/ Hydrate
  \/ Subscribe
  \/ Unsubscribe
  \/ Dispose
  \/ TimerFires
  \/ Tick

SpecReentrant == InitReentrant /\ [][NextReentrant]_vars


\* ----------------------------------------------------------- setupHydrator
\* The instances handed to setupHydrator, each by what its hydrate()
\* returns: "void" (a synchronous hydration), or the engine's hydration
\* promise in the status it has.  hydrator holds them with what the last
\* invocation of the callable did (calls, returned, ret) and the promises
\* the invocations returned (joins).
HydrateResults == {"void", "pending", "resolved", "rejected"}
EngineLists == UNION {[1..n -> HydrateResults] : n \in 0..MaxEngines}

\* (a variant that only collects the promises that have not settled)
IsPendingPromise(r) == r = "pending"

\* hydrationTask instanceof Promise
IsPromise(r) == r # "void"

\* for (const instance of persistenceInstances) { ... }
RECURSIVE forEachInstance(_, _, _)
forEachInstance(engines, i, acc) ==
  IF i > Len(engines) THEN acc
  ELSE forEachInstance(engines, i + 1,
         [calls |-> Append(acc.calls, i),
          returned |-> Append(acc.returned, engines[i]),
          asyncHydrationTasks |->
            IF IsPromise(engines[i])
            THEN Append(acc.asyncHydrationTasks, i)
            ELSE acc.asyncHydrationTasks])

\* Promise.all(asyncHydrationTasks): rejected as soon as one task is,
\* resolved when all are
promiseAll(engines, tasks) ==
  IF \E i \in 1..Len(tasks) : engines[tasks[i]] = "rejected"
  THEN "rejected"
  ELSE IF \A i \in 1..Len(tasks) : engines[tasks[i]] = "resolved"
  THEN "resolved" ELSE "pending"

\* the callable setupHydrator(persistenceInstances) returns
hydrateStores(h) ==
  LET done == forEachInstance(h.engines, 1,
                [calls |-> <<>>, returned |-> <<>>,
                 asyncHydrationTasks |-> <<>>])
  IN  [h EXCEPT
         !.calls = done.calls,
         !.returned = done.returned,
         !.ret = IF Len(done.asyncHydrationTasks) = 0 THEN "undefined"
                 ELSE "promise",
         !.joins = IF Len(done.asyncHydrationTasks) = 0 THEN @
                   ELSE Append(@, [tasks |-> done.asyncHydrationTasks,
                                   status |-> "pending"])]

EngineVars == << cfg, constructed, state, listeners, order, tally,
                 persistenceTimer, storeUnsubscribe, pendingHydration,
                 timers, promises, reads, storage, other, lastOp, burst >>

InitHydrator ==
  /\ hydrator \in {[NoHydrator EXCEPT !.engines = e] : e \in EngineLists}
  /\ cfg = Config(FALSE, FALSE, "default", "default", "identity")
  /\ storage = NullText
  /\ other = NullText
  /\ InitCommon

\* the application calls the callable
HydrateStores ==
  /\ Len(hydrator.joins) < MaxJoins
  /\ hydrator' = hydrateStores(hydrator)
  /\ UNCHANGED EngineVars

\* the hydration promise of an engine settles
EngineSettles ==
  /\ \E i \in 1..Len(hydrator.engines), st \in {"resolved", "rejected"} :
       /\ hydrator.engines[i] = "pending"
       /\ hydrator' = [hydrator EXCEPT !.engines[i] = st]
  /\ UNCHANGED EngineVars

\* the continuation of `await Promise.all(asyncHydrationTasks)`
JoinSettles ==
  /\ \E j \in 1..Len(hydrator.joins) :
       LET st == promiseAll(hydrator.engines, hydrator.joins[j].tasks)
       IN  /\ hydrator.joins[j].status = "pending"
           /\ st # "pending"
           /\ hydrator' = [hydrator EXCEPT !.joins[j].status = st]
  /\ UNCHANGED EngineVars

NextHydrator ==
  \/ HydrateStores
  \/ EngineSettles
  \/ JoinSettles

SpecHydrator == InitHydrator /\ [][NextHydrator]_vars


\* ------------------------------------------------------------- properties
Envelope(v) == [state |-> partial(v), version |-> cfg.version]

\* C1: debounce coalescing.  In a burst of N >= 1 mutations seen by the live
\* change subscription, each made before the previous one's write was due,
\* no setItem is called until DebounceTime has passed since the last
\* mutation; once more than DebounceTime has passed, exactly one setItem has
\* been called, and it carried the (partial of the) last mutation's value.
C1_DebounceCoalescing ==
  burst.active =>
    /\ burst.good
    /\ burst.writes <= 1
    /\ (burst.quiet < DebounceTime => burst.writes = 0)
    /\ (burst.quiet > DebounceTime => burst.writes = 1)

C1_Witness ==
  /\ burst.active /\ burst.n >= 2
  /\ burst.quiet > DebounceTime /\ burst.writes = 1

\* C2: hydration deduplication.  A hydrate() call made while the memoized
\* hydration promise is pending returns that very promise and calls getItem
\* zero times, so the read issued by the call that created the promise is
\* the only one; the creating call issued exactly one.
C2_HydrationDedup ==
  /\ (lastOp.name = "hydrate" /\ lastOp.pre.pending = "pending") =>
       /\ lastOp.ret = lastOp.pre.memo
       /\ pendingHydration = lastOp.pre.memo
       /\ lastOp.log.gets = 0
       /\ Cardinality({r \in reads : r.p = lastOp.ret}) = 1
  /\ (lastOp.name \in {"persist", "hydrate", "forceHydrate"}
        /\ lastOp.outcome = "pending" /\ lastOp.ret # lastOp.pre.memo) =>
       lastOp.log.gets = 1

C2_Witness ==
  /\ lastOp.name = "hydrate" /\ lastOp.pre.pending = "pending"
  /\ cfg.async

\* C3: hydration result.  Whenever the pipeline applies a migrated state,
\* the store's value right afterwards is merge(initial state, migrated
\* state), whatever set() calls came before.
C3_MergeBaseInitial ==
  lastOp.log.applied =>
    state = merge(InitialState, lastOp.log.migrated[1])

\* C4: migration arguments.  A pipeline run on a non-empty, deserializable
\* text calls migrate exactly once, with the state and version that
\* serialize back to that very text; a text without a version member gives
\* the version argument undefined.
C4_MigrateArguments ==
  (lastOp.log.piped /\ TextTruthy(lastOp.pre.text)
     /\ ~JSONparseThrows(lastOp.pre.text)) =>
    /\ Len(lastOp.log.mig) = 1
    /\ JSONstringify(lastOp.log.mig[1]) = lastOp.pre.text
    /\ (\A i \in 1..Len(lastOp.pre.text.kv) :
          lastOp.pre.text.kv[i].key # "version")
         => lastOp.log.mig[1].version = Undefined

C4_Witness ==
  /\ lastOp.log.piped /\ lastOp.pre.text = UnversionedText
  /\ Len(lastOp.log.mig) = 1

\* C5: migration veto.  When the text read is absent or empty, or migrate
\* returns a falsy value, the pipeline does not call store.set: the store's
\* value is what it was and no listener is notified.
C5_MigrationVeto ==
  (lastOp.log.piped
     /\ \/ ~TextTruthy(lastOp.pre.text)
        \/ /\ lastOp.log.migrated # <<>>
           /\ lastOp.log.migrated[1].t \in {"null", "undefined"}
              \/ lastOp.log.migrated[1] = Num(0)) =>
    /\ ~lastOp.log.applied
    /\ state = lastOp.pre.state
    /\ lastOp.log.notified = {}

C5_Witness ==
  /\ lastOp.log.piped /\ lastOp.log.migrated = <<Num(0)>>
  /\ lastOp.pre.sub /\ lastOp.pre.state # InitialState

\* C6: migration failure isolation.  When the text read is non-empty and
\* deserialize, migrate or merge throws, onError is called exactly once,
\* with kind "migration", the call does not throw and the store's value is
\* what it was.
C6_MigrationFailure ==
  (lastOp.log.piped /\ TextTruthy(lastOp.pre.text)
     /\ \/ JSONparseThrows(lastOp.pre.text)
        \/ cfg.migrate = "throws"
        \/ (cfg.merge = "throws" /\ lastOp.log.merged # <<>>)) =>
    /\ lastOp.log.errs = <<"migration">>
    /\ lastOp.outcome \notin {"threw", "rejected"}
    /\ state = lastOp.pre.state

C6_Witness ==
  /\ lastOp.log.piped /\ cfg.merge = "throws" /\ lastOp.log.merged # <<>>
  /\ lastOp.pre.state # InitialState

C8_NoWriteAfterDispose ==
  /\ [](lastOp.name = "dispose" => timers = {})
  /\ [][lastOp.name = "dispose" => lastOp'.log.wrote = <<>>]_vars

\* C8 amended: dispose() leaves no timer and no subscription; while the
\* engine is not subscribed no timer is pending, so mutations schedule
\* nothing and a mutation made before dispose() is never written by its
\* timer; every timer-driven write happens under a live subscription.  Only
\* an explicit flush() still writes.
C8_NoTimerWithoutSubscription ==
  /\ lastOp.name = "dispose" =>
       timers = {} /\ "persist" \notin listeners /\ ~storeUnsubscribe
  /\ "persist" \notin listeners => timers = {}
  /\ lastOp.name = "fire" => lastOp.pre.sub
  /\ (lastOp.name = "set" /\ ~lastOp.pre.sub) => timers = {}

C8_Witness ==
  /\ lastOp.name = "dispose" /\ lastOp.pre.timer /\ lastOp.pre.sub
  /\ lastOp.pre.state # InitialState

\* C9: dispose() is idempotent and never throws.  In every state dispose()
\* returns normally, and after a dispose() a further dispose() changes
\* nothing of the engine, the store or the timers.
View(m) == << m.state, m.listeners, m.persistenceTimer, m.storeUnsubscribe,
              m.pendingHydration, m.timers, m.promises, m.reads,
              m.storage >>

C9_DisposeIdempotent ==
  /\ constructed =>
       /\ dispose(Machine).outcome # "threw"
       /\ dispose(dispose(Machine)).outcome # "threw"
       /\ View(dispose(dispose(Machine))) = View(dispose(Machine))
  /\ lastOp.name = "dispose" =>
       /\ lastOp.outcome # "threw"
       /\ View(dispose(Machine)) = View(Machine)

C9_Witness ==
  /\ lastOp.name = "dispose" /\ ~lastOp.pre.sub /\ ~lastOp.pre.timer
  /\ persistenceTimer # 0

\* C10: no public operation fails on a storage error.  Whatever the adapter
\* does, no call throws or yields a promise that rejects, and every adapter
\* failure is reported through onError.
C10_NeverFails ==
  /\ lastOp.outcome \notin {"threw", "rejected"}
  /\ lastOp.log.failed => lastOp.log.errs # <<>>

\* the task called or continued a hydration
Hydrating == lastOp.name \in {"persist", "hydrate", "forceHydrate", "landed"}

\* C11: storage read failure.  When getItem fails during a hydration (it
\* throws, or the promise it returned rejects), onError is called once with
\* kind "storage", the store's value is what it was, the pipeline does not
\* run, and the call establishes no subscription and schedules no write:
\* the engine is subscribed afterwards only if it was before.
C11_ReadFailure ==
  (Hydrating /\ lastOp.log.failed) =>
    /\ lastOp.log.errs = <<"storage">>
    /\ state = lastOp.pre.state
    /\ ~lastOp.log.piped
    /\ ("persist" \in listeners) = lastOp.pre.sub
    /\ (timers # {}) = lastOp.pre.timer

\* the task ran persistStateToStorage and partial, serialize or setItem
\* failed
WriteFailed ==
  /\ lastOp.name \in {"fire", "flush"}
  /\ partialThrows \/ serializeThrows \/ lastOp.log.failed

\* C12 as stated: a failed write reports "persistence" exactly once, leaves
\* the store's value alone and leaves nothing scheduled; and the task that
\* follows it calls setItem or schedules a write only if it is a mutation
\* or a flush().
C12_NoWriteUntilMutationOrFlush ==
  /\ [](WriteFailed =>
          /\ lastOp.log.errs = <<"persistence">>
          /\ state = lastOp.pre.state
          /\ timers = {})
  /\ [][(WriteFailed /\ (timers' # {} \/ lastOp'.log.wrote # <<>>))
          => lastOp'.name \in {"set", "flush"}]_vars

\* C12 amended: a failed write reports "persistence" exactly once (each
\* time it happens), calls setItem at most once, leaves the store's value
\* alone and leaves nothing scheduled; while nothing is scheduled, only a
\* mutation, a flush() or a hydration (whose subscribe call hands the
\* current value to the debounce) causes a setItem or schedules one.
C12_WriteFailure ==
  /\ [](WriteFailed =>
          /\ lastOp.log.errs = <<"persistence">>
          /\ Len(lastOp.log.wrote) <= 1
          /\ state = lastOp.pre.state
          /\ timers = {})
  /\ [][(timers = {} /\ (timers' # {} \/ lastOp'.log.wrote # <<>>))
          => lastOp'.name \in {"set", "flush", "persist", "hydrate",
                               "forceHydrate", "landed"}]_vars

C12_Witness ==
  /\ WriteFailed /\ lastOp.name = "fire" /\ lastOp.log.failed
  /\ lastOp.pre.state # InitialState

\* C13: clear().  Whatever the adapter is and does, clear() returns a
\* promise that resolves, after calling removeItem exactly once; when
\* removeItem throws or rejects, onError is called exactly once, with kind
\* "clear", and nothing is reported otherwise.
C13_Clear ==
  lastOp.name = "clear" =>
    /\ lastOp.outcome = "resolved"
    /\ lastOp.log.removes = 1
    /\ lastOp.log.errs = IF lastOp.log.failed THEN <<"clear">> ELSE <<>>

C13_Witness ==
  /\ lastOp.name = "clear" /\ lastOp.log.failed /\ ~cfg.async
  /\ lastOp.pre.timer

\* C14: fallback adapter.  A task whose storage access finds the binding
\* throwing reports "storage" exactly once for that access and nothing
\* else, goes on with the fallback (a hydration reads null, runs the
\* pipeline on it and subscribes; a write or a remove leaves the storage
\* entry as it was), neither throws nor rejects, and leaves the store's
\* value unchanged.
C14_Fallback ==
  /\ [](lastOp.log.fallback > 0 =>
          /\ lastOp.log.fallback = 1
          /\ lastOp.log.errs = <<"storage">>
          /\ ~lastOp.log.failed
          /\ lastOp.outcome \notin {"threw", "rejected"}
          /\ state = lastOp.pre.state
          /\ lastOp.log.gets + Len(lastOp.log.wrote) + lastOp.log.removes = 1
          /\ lastOp.log.gets = 1 =>
               /\ lastOp.log.piped /\ ~lastOp.log.applied
               /\ lastOp.pre.text = NullText
               /\ "persist" \in listeners)
  /\ [][lastOp'.log.fallback > 0 => storage' = storage]_vars

C14_Witness ==
  /\ lastOp.log.fallback > 0 /\ lastOp.name = "fire"
  /\ lastOp.pre.state # InitialState /\ storage # NullText

GateCase ==
  /\ lastOp.log.piped /\ TextTruthy(lastOp.pre.text)
  /\ ~JSONparseThrows(lastOp.pre.text)
  /\ cfg.migrate = "default" /\ cfg.merge = "default"

C17_SkipHydrate ==
  /\ []((cfg.skipHydrate
           /\ lastOp.name \notin {"hydrate", "forceHydrate", "landed"}) =>
          /\ lastOp.log.gets = 0
          /\ ~lastOp.log.piped
          /\ lastOp.name # "set" => state = lastOp.pre.state
          /\ lastOp.name = "set" => state \in SetInputs)
  /\ [][(cfg.skipHydrate
           /\ lastOp'.name \notin {"hydrate", "forceHydrate"}) =>
          reads' \subseteq reads]_vars

C17_Witness ==
  /\ cfg.skipHydrate /\ lastOp.name = "get"
  /\ state \in SetInputs /\ storage = VersionedText
  /\ promises = <<>> /\ listeners = {} /\ persistenceTimer = 0

C19_ForceHydrateFresh ==
  /\ [](lastOp.name = "forceHydrate" =>
          /\ lastOp.log.gets = 1
          /\ (~cfg.async /\ ~lastOp.log.failed) =>
               lastOp.log.piped /\ lastOp.pre.text = storage
          /\ (cfg.async /\ ~lastOp.log.failed) =>
               /\ pendingHydration = lastOp.ret
               /\ lastOp.ret # lastOp.pre.memo
               /\ [p |-> lastOp.ret, text |-> storage] \in reads)
  /\ [][(/\ lastOp.name = "landed" /\ lastOp.ret = pendingHydration
          /\ lastOp.log.applied /\ lastOp.pre.text = storage
          /\ lastOp'.name = "landed" /\ lastOp'.pre.text # storage) =>
         ~lastOp'.log.applied]_vars

\* C20 as stated: waitForPersistence() touches nothing and returns the
\* promise that the most recent hydrate()/forceHydrate() call returning a
\* promise returned (the last promise created, since a memoized return is
\* that same promise), and no promise when none was ever created.
C20_WaitReturnsLatestPromise ==
  lastOp.name = "waitForPersistence" =>
    /\ lastOp.log = EmptyLog
    /\ lastOp.ret = Len(promises)

\* C20 amended: waitForPersistence() calls neither the storage nor onError
\* and changes nothing of the store, the engine or the timers; it returns
\* the memoized promise, or no promise when there is none.  The memoized
\* promise is the last one created, it is the one returned by every
\* hydrate()/forceHydrate() call that returns a promise, and it is emptied
\* only by a forceHydrate() that returns no promise (its getItem threw, or
\* answered synchronously).
C20_WaitReturnsMemo ==
  /\ [](lastOp.name = "waitForPersistence" =>
          /\ lastOp.log = EmptyLog
          /\ lastOp.ret = pendingHydration
          /\ (promises = <<>> => lastOp.ret = 0)
          /\ (lastOp.ret = 0) = (lastOp.outcome = "void"))
  /\ [](pendingHydration \in {0, Len(promises)})
  /\ []((lastOp.name \in {"persist", "hydrate", "forceHydrate"}
           /\ lastOp.ret # 0) => pendingHydration = lastOp.ret)
  /\ [][lastOp'.name = "waitForPersistence" =>
          UNCHANGED << state, listeners, persistenceTimer, storeUnsubscribe,
                       pendingHydration, timers, promises, reads,
                       storage >>]_vars
  /\ [][(pendingHydration # 0 /\ pendingHydration' # pendingHydration) =>
          lastOp'.name = "forceHydrate"]_vars
  /\ [][(pendingHydration # 0 /\ pendingHydration' = 0) =>
          lastOp'.ret = 0]_vars

C20_Witness ==
  /\ lastOp.name = "waitForPersistence" /\ lastOp.ret = 0
  /\ Len(promises) = 1 /\ promises[1] = "pending"

\* C21: when `storage` is a factory, every storage access of a task (each
\* getItem of a hydration, each setItem of a debounced or flushed write,
\* each removeItem of a clear) calls the factory once more and goes to the
\* adapter the factory yields at that moment: a read takes the entry of
\* that adapter, a write or a clear changes that adapter's entry, and the
\* adapter yielded before a swap is neither read nor written.
C21_FreshAdapter ==
  [][(cfg.binding = "factory" /\ lastOp'.name # "swap") =>
       LET log == lastOp'.log
       IN  /\ log.resolved = log.gets + Len(log.wrote) + log.removes
           /\ \A i \in DOMAIN log.used : log.used[i] = "storage"
           /\ other' = other
           /\ (log.wrote # <<>> /\ ~log.failed) => storage' = log.wrote[1]
           /\ (log.removes > 0 /\ ~log.failed) => storage' = NullText
           /\ (log.gets > 0 /\ ~log.failed /\ ~cfg.async) =>
                /\ log.piped
                /\ TextTruthy(storage) =>
                     /\ log.mig # <<>>
                     /\ log.mig[1] = deserialize(storage)
           /\ (log.gets > 0 /\ ~log.failed /\ cfg.async) =>
                \E r \in reads' \ reads : r.text = storage]_vars

\* a hydration read made after a swap took the entry of the adapter swapped
\* in, the adapter yielded at construction being the other one now
C21_Witness ==
  /\ cfg.binding = "factory" /\ other = VersionedText
  /\ lastOp.name \in {"hydrate", "forceHydrate"} /\ lastOp.log.gets = 1
  /\ ~lastOp.log.failed /\ lastOp.pre.text = UnversionedText
  /\ lastOp.log.used = << "storage" >>

\* C22 as stated: an invocation of the hydrator calls hydrate() once on
\* every engine in list order; it returns undefined exactly when no
\* hydrate() returned a pending promise; the promise it returns otherwise
\* has resolved only if every collected hydration promise has resolved.
C22_HydratorJoin ==
  /\ hydrator.ret # "none" =>
       /\ hydrator.calls = [i \in 1..Len(hydrator.engines) |-> i]
       /\ (hydrator.ret = "undefined") =
            (\A i \in 1..Len(hydrator.returned) :
               hydrator.returned[i] # "pending")
  /\ \A j \in 1..Len(hydrator.joins) :
       hydrator.joins[j].status = "resolved" =>
         \A i \in 1..Len(hydrator.joins[j].tasks) :
           hydrator.engines[hydrator.joins[j].tasks[i]] = "resolved"

\* C22 amended: an invocation of the hydrator calls hydrate() once on every
\* engine in list order; it returns undefined exactly when no hydrate()
\* returned a promise, pending or already settled; the promise it returns
\* otherwise has resolved only if every collected hydration promise has
\* resolved.
C22_HydratorJoinAnyPromise ==
  /\ hydrator.ret # "none" =>
       /\ hydrator.calls = [i \in 1..Len(hydrator.engines) |-> i]
       /\ (hydrator.ret = "undefined") =
            (\A i \in 1..Len(hydrator.returned) :
               hydrator.returned[i] = "void")
  /\ \A j \in 1..Len(hydrator.joins) :
       hydrator.joins[j].status = "resolved" =>
         \A i \in 1..Len(hydrator.joins[j].tasks) :
           hydrator.engines[hydrator.joins[j].tasks[i]] = "resolved"

\* the hydrator was called on a synchronous engine, an engine whose
\* hydration had completed and one whose hydration was pending, and the
\* promise it returned has resolved
C22_Witness ==
  /\ hydrator.ret = "promise"
  /\ \E i, j, k \in 1..Len(hydrator.returned) :
       /\ hydrator.returned[i] = "void"
       /\ hydrator.returned[j] = "resolved"
       /\ hydrator.returned[k] = "pending"
  /\ Len(hydrator.joins) = 1 /\ hydrator.joins[1].status = "resolved"

C25_SubscriberExceptionPropagates ==
  lastOp.log.thrown =>
    /\ lastOp.outcome = "threw"
    /\ lastOp.log.errs = <<>>

\* C26: store.set with an object that carries only some of the state's
\* properties merges it into the state, the properties it does not mention
\* keeping their values.
C26_PartialSetMerged ==
  (/\ lastOp.name = "set"
   /\ TypeOf(lastOp.pre.arg) = "object"
   /\ TypeOf(lastOp.pre.state) = "object") =>
    state = ObjectAssign(lastOp.pre.state, lastOp.pre.arg)

\* C27: at most one write timer is scheduled, whatever the interleaving of
\* set, hydrate, forceHydrate, flush, clear and dispose; a store.set seen by
\* the change subscription leaves exactly one timer, the one it scheduled:
\* due after the full debounce time, carrying the new state, its handle
\* kept by the engine.
C27_SingleWriteTimer ==
  /\ Cardinality(timers) <= 1
  /\ (lastOp.name = "set" /\ lastOp.pre.sub) =>
       \E t \in timers :
         /\ timers = {t}
         /\ t.data = state /\ t.remaining = DebounceTime
         /\ persistenceTimer = t.id

\* a store.set made while a write was pending has replaced its timer
C27_Witness ==
  /\ lastOp.name = "set" /\ lastOp.pre.sub /\ lastOp.pre.timer
  /\ lastOp.pre.state # state
  /\ Cardinality(timers) = 1

\* C28: at most one hydration storage read is in flight, whatever the
\* interleaving of hydrate(), forceHydrate() and dispose() with pending
\* asynchronous reads.
C28_SingleHydrationInFlight == Cardinality(reads) <= 1

\* C29: the engine holds at most one live subscription to its store: its
\* listener is in the store's Set at most once, and exactly when the engine
\* holds the unsubscribe closure; a task that ran the hydration pipeline
\* (a hydrate(), a forceHydrate(), the completion of an asynchronous read)
\* ends with that one subscription installed, a dispose() with none.
C29_SingleSubscription ==
  /\ Cardinality({i \in 1..Len(order) : order[i] = "persist"}) <= 1
  /\ listeners = {order[i] : i \in 1..Len(order)}
  /\ storeUnsubscribe = ("persist" \in listeners)
  /\ lastOp.log.piped => "persist" \in listeners
  /\ lastOp.name = "dispose" => "persist" \notin listeners

\* an asynchronous hydration completed while the engine was subscribed
\* already, and the engine is subscribed once
C29_Witness ==
  /\ lastOp.name = "landed" /\ lastOp.log.piped /\ lastOp.pre.sub
  /\ order = << "persist" >> /\ storeUnsubscribe

FailedPipeline(op) ==
  op.log.piped /\ \E i \in 1..Len(op.log.errs) : op.log.errs[i] = "migration"

\* C30: a hydration whose deserialize, migrate or merge threw leaves the
\* change subscription live; the store.set that follows it schedules a
\* write of the new state after the debounce time, and the timer that
\* fires hands the envelope of the state it carries to setItem.
C30_PersistenceSurvivesFailedMigration ==
  /\ [](FailedPipeline(lastOp) =>
          /\ "persist" \in listeners /\ storeUnsubscribe
          /\ \E t \in timers : t.id = persistenceTimer)
  /\ [][(FailedPipeline(lastOp) /\ lastOp'.name = "set") =>
          \E t \in timers' :
            /\ t.data = state' /\ t.remaining = DebounceTime
            /\ t.id = persistenceTimer']_vars
  /\ [][lastOp'.name = "fire" =>
          \E t \in timers \ timers' :
            /\ t.remaining = 0
            /\ lastOp'.log.wrote = << serialize(Envelope(t.data)) >>
            /\ ~lastOp'.log.failed => storage' = serialize(Envelope(t.data))
       ]_vars

\* under a merge that throws, the stored text still being the one the
\* failed hydration read, a store.set was seen by the change subscription
\* and its write is scheduled
C30_Witness ==
  /\ cfg.merge = "throws" /\ ~cfg.skipHydrate /\ storage = VersionedText
  /\ lastOp.name = "set" /\ lastOp.pre.sub /\ state = Obj(1, 1)
  /\ \E t \in timers : t.data = state


\* C31: dispose() does not cancel a hydration.  After a dispose() called
\* while the memoized asynchronous read was pending, that read is still in
\* flight and its promise still pending; a read that lands and resolves has
\* run the hydration pipeline, and when the pipeline applied a state (as it
\* does for a versioned entry under the default migrate and merge) the
\* store holds merge(value before, migrated state).
C31_DisposeKeepsHydration ==
  /\ (lastOp.name = "dispose" /\ lastOp.pre.pending = "pending") =>
       /\ promises[lastOp.pre.memo] = "pending"
       /\ \E r \in reads : r.p = lastOp.pre.memo
  /\ (lastOp.name = "landed" /\ lastOp.outcome = "resolved") =>
       /\ lastOp.log.piped
       /\ lastOp.log.applied =>
            state = merge(lastOp.pre.state, lastOp.log.migrated[1])
       /\ (cfg.migrate = "default" /\ cfg.merge = "default"
             /\ lastOp.pre.text = VersionedText) =>
            lastOp.log.applied

\* the second of two reads landed on a disposed engine, after the first,
\* and its state was applied
C31_Witness ==
  /\ lastOp.name = "landed" /\ ~lastOp.pre.sub
  /\ Len(promises) = 2 /\ promises[1] = "resolved" /\ lastOp.ret = 2
  /\ lastOp.log.applied /\ state # lastOp.pre.state

\* C33: an asynchronous hydration that completes after dispose() installs
\* the change subscription again: whether or not the engine was subscribed
\* when the read landed, a read that resolved leaves the engine's listener
\* in the store's Set, the unsubscribe closure held and a write scheduled;
\* the store.set that follows it schedules a write of the new state, although
\* no engine method was called since the dispose().
C33_LandingRearmsPersistence ==
  /\ []((lastOp.name = "landed" /\ lastOp.outcome = "resolved") =>
          /\ "persist" \in listeners /\ storeUnsubscribe
          /\ \E t \in timers :
               /\ t.id = persistenceTimer /\ t.remaining = DebounceTime)
  /\ [][(lastOp.name = "landed" /\ lastOp.outcome = "resolved"
           /\ ~lastOp.pre.sub /\ lastOp'.name = "set") =>
          \E t \in timers' :
            /\ t.data = state' /\ t.remaining = DebounceTime
            /\ t.id = persistenceTimer']_vars

\* the first of two reads landed on a disposed engine after the second had
\* landed, and subscribed it again
C33_Witness ==
  /\ lastOp.name = "landed" /\ lastOp.outcome = "resolved"
  /\ ~lastOp.pre.sub /\ "persist" \in listeners
  /\ Len(promises) = 2 /\ lastOp.ret = 1 /\ promises[2] = "resolved"

\* C34: a hydration that reaches the subscription setup (whatever the entry
\* was: empty, applied, vetoed by migrate, or failing in the pipeline)
\* leaves exactly one timer, due after the full debounce time and carrying
\* the store's current value, no mutation being needed; the timer that
\* fires calls setItem exactly once, with the envelope of the store's
\* value.
C34_HydrationSchedulesWrite ==
  /\ lastOp.log.piped =>
       \E t \in timers :
         /\ timers = {t}
         /\ t.data = state /\ t.remaining = DebounceTime
         /\ persistenceTimer = t.id
  /\ lastOp.name = "fire" =>
       /\ lastOp.log.wrote = << serialize(Envelope(state)) >>
       /\ timers = {}

\* the write that follows a hydration of an empty entry, the store never
\* having been mutated
C34_Witness ==
  /\ lastOp.name = "fire" /\ state = InitialState /\ ~lastOp.log.failed
  /\ ~cfg.skipHydrate
  /\ storage = serialize(Envelope(InitialState))

\* C35: the memoized hydration promise stays until a forceHydrate(): no
\* other task changes it, whether it is pending, resolved or rejected and
\* whether or not the engine was disposed; every hydrate() call made while
\* it is held returns that promise and calls getItem zero times.
C35_MemoPermanent ==
  /\ (lastOp.pre.memo # 0 /\ lastOp.name # "forceHydrate") =>
       pendingHydration = lastOp.pre.memo
  /\ (lastOp.name = "hydrate" /\ lastOp.pre.memo # 0) =>
       /\ lastOp.ret = lastOp.pre.memo
       /\ lastOp.log.gets = 0

\* a hydrate() on a disposed engine whose hydration had been rejected
C35_Witness ==
  /\ lastOp.name = "hydrate" /\ lastOp.pre.pending = "rejected"
  /\ ~lastOp.pre.sub /\ lastOp.pre.state # InitialState
  /\ lastOp.ret = pendingHydration

\* C36: with skipHydrate, as long as the engine is not subscribed, a task
\* that is neither hydrate() nor forceHydrate() nor the completion of a read
\* they issued leaves it unsubscribed and without timer, and calls setItem
\* only if it is a flush(); the engine is unsubscribed at construction, so
\* that without an explicit hydration no store.set is ever written.
C36_NoHydrationNoPersistence ==
  /\ []((cfg.skipHydrate /\ lastOp.name \in {"create", "persist"}) =>
          "persist" \notin listeners /\ timers = {})
  /\ [][(cfg.skipHydrate /\ "persist" \notin listeners
           /\ lastOp'.name \notin {"hydrate", "forceHydrate", "landed"}) =>
          /\ "persist" \notin listeners' /\ timers' \subseteq timers
          /\ lastOp'.log.wrote # <<>> => lastOp'.name = "flush"
          /\ lastOp'.name # "flush" => storage' \in {storage, NullText}]_vars

\* a store.set on an engine constructed with skipHydrate and never
\* hydrated
C36_Witness ==
  /\ cfg.skipHydrate /\ cfg.async /\ promises = <<>> /\ constructed
  /\ lastOp.name = "set" /\ state = Obj(1, 1)
  /\ "persist" \notin listeners /\ timers = {}
  /\ storage = UnversionedText

C39_StorageReflectsState ==
  /\ (~cfg.async /\ burst.active /\ burst.quiet = DebounceTime) =>
       \A t \in timers : t.remaining = 0
  /\ (~cfg.async /\ burst.active /\ burst.quiet > DebounceTime) =>
       timers = {} /\ burst.writes = 1
  /\ (~cfg.async /\ burst.active /\ burst.quiet < DebounceTime) =>
       timers # {}
  /\ (~cfg.async /\ lastOp.name = "fire" /\ ~lastOp.log.failed) =>
       /\ storage = serialize(Envelope(state))
       /\ burst.active => burst.quiet = DebounceTime /\ burst.last = state

\* the write of the second mutation of a burst reached the storage
C39_Witness ==
  /\ ~cfg.async /\ lastOp.name = "fire" /\ ~lastOp.log.failed
  /\ burst.active /\ burst.n >= 2 /\ state = Num(1)
  /\ storage = serialize(Envelope(state))


CallsOf(calls, l) == Cardinality({i \in DOMAIN calls : calls[i].l = l})

\* C32: a listener added or removed by another listener during a
\* notification never causes a listener that was subscribed when set() was
\* called to be skipped, nor any listener to be called twice for the same
\* mutation: a store.set (with no further set() made by a listener) calls
\* every listener that was subscribed when it began, and calls no listener
\* more than once.
C32_StructuralChangeSafe ==
  [][lastOp'.name = "set" =>
       /\ \A l \in listeners : CallsOf(lastOp'.log.calls, l) >= 1
       /\ \A l \in listeners \cup listeners' :
            CallsOf(lastOp'.log.calls, l) <= 1]_vars

Stale == \E t \in timers : t.data # state

C40_ListenersInSync ==
  (lastOp.name = "set" /\ ~lastOp.log.thrown) =>
    LET calls == lastOp.log.calls
        assigned == lastOp.log.assigned
    IN  /\ state = assigned[Len(assigned)]
        /\ \A l \in listeners :
             \E i \in DOMAIN calls :
               /\ calls[i].l = l /\ calls[i].v = state
               /\ \A j \in DOMAIN calls : j > i => calls[j].l # l

\* the normalising listener, subscribed before the recording one and the
\* engine's, has called set() during the notification of a number
C40_Witness ==
  /\ lastOp.name = "set" /\ ~lastOp.log.thrown
  /\ Len(lastOp.log.assigned) = 2 /\ state = Obj(1, 0)
  /\ \E i, j, k \in DOMAIN order :
       /\ i < j /\ i < k
       /\ order[i] = "norm" /\ order[j] = "seen" /\ order[k] = "persist"

====
